---- MODULE Spec2Model ----
(***************************************************************************)
(* Model of src/siri/siri.c of siridb-server: the database bootstrap       *)
(* (siridb_load_databases), the start of the server (siri_start), the      *)
(* shutdown on a signal (signal_handler, close_handlers,                   *)
(* walk_close_handlers) and the final cleanup (siri_free).                 *)
(*                                                                         *)
(* The program is single threaded.  pc is the position of that thread; one *)
(* action is one statement, or one branch with everything it does before   *)
(* it leaves the function.                                                 *)
(***************************************************************************)
EXTENDS Integers, Sequences, FiniteSets, TLC

\* ------------------------------------------------------------------ bounds
\* directory entries readdir() hands out before it reports the end
MaxEntries == 2
\* client connections (TCP handles with a payload) accepted while running
MaxClients == 1
\* handles of other kinds created by the collaborators while running
MaxExtra == 1
\* calls of siri_free made by the caller of siri_start
MaxFreeCalls == 2

\* --------------------------------------------------------------- constants
N_SIGNALS == 3
signals == <<"SIGINT", "SIGTERM", "SIGSEGV">>

\* d_name values, as character sequences, so that strlen/strncmp are computed
Names ==
    { <<".">>, <<".", ".">>, <<".", ".", "a">>, <<"_", "_", "a">>,
      <<"a">>, <<"b">> }

Cand == 1 .. MaxEntries

VARIABLES
    pc,           \* position of the thread
    rc,           \* value returned by siridb_load_databases
    start_rc,     \* << >>, and <<value>> once siri_start has returned value
    entries,      \* the entries readdir() returned so far, as they are on disk
    log,          \* the load stages executed, in order: <<candidate, stage>>
    failed,       \* <<candidate, stage>> of the failing stage, or <<>>
    dir,          \* db_container_path: "unopened" | "open" | "closed"
    dirCloses,    \* number of closedir() calls
    cfgparser,    \* per candidate: "none" | "live" | "freed"
    cfgFrees,     \* per candidate: number of cfgparser_free() calls
    unpacker,     \* per candidate: "none" | "null" | "live" | "freed"
    qpFrees,      \* per candidate: number of qp_free_unpacker() calls on it
    inst,         \* per candidate: the siridb_t built for it
    siridb_list,  \* siri.siridb_list: "NULL" or a sequence of candidates
    grammar,      \* siri.grammar: "NULL" | "set"
    fh,           \* siri.fh: "NULL" | "set"
    loop,         \* siri.loop: "NULL" | "open" | "closed" | "busy"
    handles,      \* the loop's handle queue
    stop_flag,    \* loop->stop_flag
    depth,        \* number of uv_run() calls on the stack
    walkIdx,      \* position of uv_walk in the handle queue
    task,         \* optimize/heartbeat: "none" | "started" | "cancelled"
    cancels,      \* optimize/heartbeat: number of cancel calls
    steps,        \* the shutdown and cleanup steps executed, in order
    trigger,      \* what called close_handlers: "none", "listener" or the signal
    mainRun,      \* the uv_run of siri_start was entered
    frees,        \* number of releases of loop, grammar, fh, list
    freeCalls     \* number of siri_free calls

loadVars ==
    << rc, entries, log, failed, dir, dirCloses, cfgparser, cfgFrees,
       unpacker, qpFrees, inst, siridb_list >>
loopVars == << loop, handles, stop_flag, depth, walkIdx, task, cancels,
               trigger, mainRun >>
freeVars == << frees, freeCalls >>
vars == << pc, start_rc, loadVars, loopVars, freeVars, grammar, fh, steps >>

cur == Len(entries)

\* a siridb_t; dbpath and buffer_path are << >> until they are set
NoInst == [made |-> FALSE, ref |-> 0, dbpath |-> << >>,
           buffer_path |-> << >>, start_ts |-> FALSE, destroyed |-> 0]

Init ==
    /\ pc = "siri_start"
    /\ rc = 0
    /\ start_rc = << >>
    /\ entries = << >>
    /\ log = << >>
    /\ failed = << >>
    /\ dir = "unopened"
    /\ dirCloses = 0
    /\ cfgparser = [i \in Cand |-> "none"]
    /\ cfgFrees = [i \in Cand |-> 0]
    /\ unpacker = [i \in Cand |-> "none"]
    /\ qpFrees = [i \in Cand |-> 0]
    /\ inst = [i \in Cand |-> NoInst]
    /\ siridb_list = "NULL"
    /\ grammar = "NULL"
    /\ fh = "NULL"
    /\ loop = "NULL"
    /\ handles = << >>
    /\ stop_flag = FALSE
    /\ depth = 0
    /\ walkIdx = 0
    /\ task = [t \in {"optimize", "heartbeat"} |-> "none"]
    /\ cancels = [t \in {"optimize", "heartbeat"} |-> 0]
    /\ steps = << >>
    /\ trigger = "none"
    /\ mainRun = FALSE
    /\ frees = [r \in {"loop", "grammar", "fh", "list"} |-> 0]
    /\ freeCalls = 0

\* ------------------------------------------------ siridb_load_databases

Logged(stage) == Append(log, <<cur, stage>>)

\* siri_start up to the call of siridb_load_databases
siri_start_setup ==
    /\ pc = "siri_start"
    /\ grammar' = "set"
    /\ siridb_list' = << >>
    /\ fh' = "set"
    /\ pc' = "stat"
    /\ UNCHANGED << start_rc, rc, entries, log, failed, dir, dirCloses,
                    cfgparser, cfgFrees, unpacker, qpFrees, inst,
                    loopVars, freeVars, steps >>

\* stat() of the base path, and mkdir() when it does not exist
stat_mkdir ==
    /\ pc = "stat"
    /\ \E exists \in BOOLEAN, made \in BOOLEAN :
          IF exists \/ made
          THEN pc' = "opendir" /\ rc' = rc
          ELSE pc' = "load_return" /\ rc' = 1
    /\ UNCHANGED << start_rc, entries, log, failed, dir, dirCloses,
                    cfgparser, cfgFrees, unpacker, qpFrees, inst, siridb_list,
                    loopVars, freeVars, grammar, fh, steps >>

opendir ==
    /\ pc = "opendir"
    /\ \E ok \in BOOLEAN :
          IF ok
          THEN pc' = "readdir" /\ dir' = "open" /\ rc' = rc
          ELSE pc' = "load_return" /\ dir' = dir /\ rc' = 1
    /\ UNCHANGED << start_rc, entries, log, failed, dirCloses,
                    cfgparser, cfgFrees, unpacker, qpFrees, inst, siridb_list,
                    loopVars, freeVars, grammar, fh, steps >>

\* the names of the entries returned so far
Seen == { entries[i].name : i \in 1 .. Len(entries) }

\* what the base path can hold under a name: what fstatat() will report
\* ("error": it fails) and whether <name>/database.conf is readable, which
\* it can be in a directory only; "." and ".." are directories
DirEntries ==
    { e \in [name : Names, ftype : {"error", "file", "dir"},
             conf : {"yes", "no"}] :
        /\ e.ftype # "dir" => e.conf = "no"
        /\ e.name \in { <<".">>, <<".", ".">> } => e.ftype = "dir" }

\* while ((dbpath = readdir(..)) != NULL) ... closedir(); return 0
readdir ==
    /\ pc = "readdir"
    /\ \/ /\ cur < MaxEntries
          /\ \E e \in DirEntries :
                /\ e.name \notin Seen
                /\ entries' = Append(entries, e)
          /\ pc' = "check_name"
          /\ UNCHANGED << rc, dir, dirCloses >>
       \/ /\ dir' = "closed"
          /\ dirCloses' = dirCloses + 1
          /\ rc' = 0
          /\ pc' = "load_return"
          /\ UNCHANGED entries
    /\ UNCHANGED << start_rc, log, failed, cfgparser, cfgFrees, unpacker,
                    qpFrees, inst, siridb_list, loopVars, freeVars, grammar,
                    fh, steps >>

\* strncmp(s, p, 2) == 0 for a two character p, on an s of length >= 2
strncmp2(s, p) == SubSeq(s, 1, 2) = p

\* SkipName without the test for the double underscore
SkipName_dots_only(n) ==
    \/ (Len(n) = 1 /\ n = <<".">>)
    \/ (Len(n) >= 2 /\ strncmp2(n, <<".", ".">>))

\* the test of lines 126-130
SkipName(n) ==
    \/ (Len(n) = 1 /\ n = <<".">>)
    \/ (Len(n) >= 2 /\ (strncmp2(n, <<".", ".">>) \/ strncmp2(n, <<"_", "_">>)))

check_name ==
    /\ pc = "check_name"
    /\ pc' = IF SkipName(entries[cur].name) THEN "readdir" ELSE "fstatat"
    /\ UNCHANGED << start_rc, loadVars, loopVars, freeVars, grammar, fh, steps >>

\* fstatat() and S_ISDIR()
fstatat ==
    /\ pc = "fstatat"
    /\ pc' = IF entries[cur].ftype = "dir" THEN "access" ELSE "readdir"
    /\ UNCHANGED << start_rc, rc, entries, log, failed, dir, dirCloses, cfgparser,
                    cfgFrees, unpacker, qpFrees, inst, siridb_list, loopVars,
                    freeVars, grammar, fh, steps >>

\* access(<dir>/database.conf, R_OK)
access ==
    /\ pc = "access"
    /\ pc' = IF entries[cur].conf = "yes" THEN "cfgparser_read" ELSE "readdir"
    /\ UNCHANGED << start_rc, rc, entries, log, failed, dir, dirCloses, cfgparser,
                    cfgFrees, unpacker, qpFrees, inst, siridb_list, loopVars,
                    freeVars, grammar, fh, steps >>

\* log_error(..); closedir(db_container_path); ... return 1;
StageFail(stage) ==
    /\ failed' = <<cur, stage>>
    /\ dir' = "closed"
    /\ dirCloses' = dirCloses + 1
    /\ rc' = 1
    /\ pc' = "load_return"

StageOk(next) ==
    /\ pc' = next
    /\ UNCHANGED << failed, dir, dirCloses, rc >>

\* cfgparser_new(); cfgparser_read(): on failure closedir, cfgparser_free
cfgparser_read ==
    /\ pc = "cfgparser_read"
    /\ log' = Logged("cfgparser_read")
    /\ \E ok \in BOOLEAN :
          IF ok
          THEN /\ StageOk("qp_from_file_unpacker")
               /\ cfgparser' = [cfgparser EXCEPT ![cur] = "live"]
               /\ UNCHANGED cfgFrees
          ELSE /\ StageFail("cfgparser_read")
               /\ cfgparser' = [cfgparser EXCEPT ![cur] = "freed"]
               /\ cfgFrees' = [cfgFrees EXCEPT ![cur] = @ + 1]
    /\ UNCHANGED << start_rc, entries, unpacker, qpFrees, inst, siridb_list,
                    loopVars, freeVars, grammar, fh, steps >>

\* qp_from_file_unpacker(): on NULL closedir, qp_free_unpacker(NULL),
\* cfgparser_free
qp_from_file_unpacker ==
    /\ pc = "qp_from_file_unpacker"
    /\ log' = Logged("qp_from_file_unpacker")
    /\ \E ok \in BOOLEAN :
          IF ok
          THEN /\ StageOk("siridb_from_unpacker")
               /\ unpacker' = [unpacker EXCEPT ![cur] = "live"]
               /\ UNCHANGED << cfgparser, cfgFrees, qpFrees >>
          ELSE /\ StageFail("qp_from_file_unpacker")
               /\ unpacker' = [unpacker EXCEPT ![cur] = "null"]
               /\ qpFrees' = [qpFrees EXCEPT ![cur] = @ + 1]
               /\ cfgparser' = [cfgparser EXCEPT ![cur] = "freed"]
               /\ cfgFrees' = [cfgFrees EXCEPT ![cur] = @ + 1]
    /\ UNCHANGED << start_rc, entries, inst, siridb_list,
                    loopVars, freeVars, grammar, fh, steps >>

\* siridb_from_unpacker(unpacker, &siridb, err_msg): on failure closedir,
\* qp_free_unpacker, cfgparser_free.  The new siridb_t has no holder yet.
siridb_from_unpacker ==
    /\ pc = "siridb_from_unpacker"
    /\ log' = Logged("siridb_from_unpacker")
    /\ \E ok \in BOOLEAN :
          IF ok
          THEN /\ StageOk("llist_append")
               /\ inst' = [inst EXCEPT ![cur].made = TRUE]
               /\ UNCHANGED << cfgparser, cfgFrees, unpacker, qpFrees >>
          ELSE /\ StageFail("siridb_from_unpacker")
               /\ unpacker' = [unpacker EXCEPT ![cur] = "freed"]
               /\ qpFrees' = [qpFrees EXCEPT ![cur] = @ + 1]
               /\ cfgparser' = [cfgparser EXCEPT ![cur] = "freed"]
               /\ cfgFrees' = [cfgFrees EXCEPT ![cur] = @ + 1]
               /\ UNCHANGED inst
    /\ UNCHANGED << start_rc, entries, siridb_list,
                    loopVars, freeVars, grammar, fh, steps >>

\* llist_append(siri.siridb_list, siridb)
llist_append ==
    /\ pc = "llist_append"
    /\ log' = Logged("llist_append")
    /\ siridb_list' = Append(siridb_list, cur)
    /\ pc' = "siridb_incref"
    /\ UNCHANGED << start_rc, rc, entries, failed, dir, dirCloses, cfgparser,
                    cfgFrees, unpacker, qpFrees, inst,
                    loopVars, freeVars, grammar, fh, steps >>

\* siridb_incref(siridb)
siridb_incref ==
    /\ pc = "siridb_incref"
    /\ log' = Logged("siridb_incref")
    /\ inst' = [inst EXCEPT ![cur].ref = @ + 1]
    /\ pc' = "qp_free_unpacker"
    /\ UNCHANGED << start_rc, rc, entries, failed, dir, dirCloses, cfgparser,
                    cfgFrees, unpacker, qpFrees, siridb_list,
                    loopVars, freeVars, grammar, fh, steps >>

\* qp_free_unpacker(unpacker) on the success path
qp_free_unpacker ==
    /\ pc = "qp_free_unpacker"
    /\ log' = Logged("qp_free_unpacker")
    /\ unpacker' = [unpacker EXCEPT ![cur] = "freed"]
    /\ qpFrees' = [qpFrees EXCEPT ![cur] = @ + 1]
    /\ pc' = "set_dbpath"
    /\ UNCHANGED << start_rc, rc, entries, failed, dir, dirCloses, cfgparser,
                    cfgFrees, inst, siridb_list,
                    loopVars, freeVars, grammar, fh, steps >>

\* siridb->dbpath = strdup("<default_db_path><d_name>/")
set_dbpath ==
    /\ pc = "set_dbpath"
    /\ log' = Logged("set_dbpath")
    /\ inst' = [inst EXCEPT ![cur].dbpath = entries[cur].name \o <<"/">>]
    /\ pc' = "set_buffer_path"
    /\ UNCHANGED << start_rc, rc, entries, failed, dir, dirCloses, cfgparser,
                    cfgFrees, unpacker, qpFrees, siridb_list,
                    loopVars, freeVars, grammar, fh, steps >>

\* cfgparser_get_option(.., "buffer", "buffer_path"); siridb->buffer_path is
\* the option when it was found and is a string, else siridb->dbpath
set_buffer_path ==
    /\ pc = "set_buffer_path"
    /\ log' = Logged("set_buffer_path")
    /\ \E found \in BOOLEAN, tp \in {"string", "other"} :
          inst' = [inst EXCEPT ![cur].buffer_path =
                     IF found /\ tp = "string"
                     THEN <<"option">> ELSE inst[cur].dbpath]
    /\ pc' = "cfgparser_free"
    /\ UNCHANGED << start_rc, rc, entries, failed, dir, dirCloses, cfgparser,
                    cfgFrees, unpacker, qpFrees, siridb_list,
                    loopVars, freeVars, grammar, fh, steps >>

\* the success path without its cfgparser_free
cfgparser_free_left_out ==
    /\ pc = "cfgparser_free"
    /\ log' = Logged("cfgparser_free")
    /\ pc' = "siridb_users_load"
    /\ UNCHANGED << start_rc, rc, entries, failed, dir, dirCloses, cfgparser,
                    cfgFrees, unpacker, qpFrees, inst, siridb_list,
                    loopVars, freeVars, grammar, fh, steps >>

\* cfgparser_free(cfgparser) on the success path
cfgparser_free ==
    /\ pc = "cfgparser_free"
    /\ log' = Logged("cfgparser_free")
    /\ cfgparser' = [cfgparser EXCEPT ![cur] = "freed"]
    /\ cfgFrees' = [cfgFrees EXCEPT ![cur] = @ + 1]
    /\ pc' = "siridb_users_load"
    /\ UNCHANGED << start_rc, rc, entries, failed, dir, dirCloses,
                    unpacker, qpFrees, inst, siridb_list,
                    loopVars, freeVars, grammar, fh, steps >>

\* LoadStage with a failing stage logged and skipped: the loop goes on to
\* the next entry instead of returning
LoadStage_continue(stage, next) ==
    /\ pc = stage
    /\ log' = Logged(stage)
    /\ \E ok \in BOOLEAN :
          IF ok
          THEN StageOk(next)
          ELSE /\ failed' = <<cur, stage>>
               /\ pc' = "readdir"
               /\ UNCHANGED << dir, dirCloses, rc >>
    /\ UNCHANGED << start_rc, entries, cfgparser, cfgFrees, unpacker, qpFrees,
                    inst, siridb_list, loopVars, freeVars, grammar, fh, steps >>

\* LoadStage with a failing stage that empties the registry before it returns
LoadStage_rollback(stage, next) ==
    /\ pc = stage
    /\ log' = Logged(stage)
    /\ \E ok \in BOOLEAN :
          IF ok
          THEN StageOk(next) /\ UNCHANGED siridb_list
          ELSE StageFail(stage) /\ siridb_list' = << >>
    /\ UNCHANGED << start_rc, entries, cfgparser, cfgFrees, unpacker, qpFrees,
                    inst, loopVars, freeVars, grammar, fh, steps >>

\* if (<stage>(siridb)) { log_error; closedir; return 1; }
LoadStage(stage, next) ==
    /\ pc = stage
    /\ log' = Logged(stage)
    /\ \E ok \in BOOLEAN :
          IF ok THEN StageOk(next) ELSE StageFail(stage)
    /\ UNCHANGED << start_rc, entries, cfgparser, cfgFrees, unpacker, qpFrees,
                    inst, siridb_list, loopVars, freeVars, grammar, fh, steps >>

siridb_users_load   == LoadStage("siridb_users_load", "siridb_servers_load")
siridb_servers_load == LoadStage("siridb_servers_load", "siridb_series_load")
\* siridb_series_load followed by siridb_buffer_open: siridb_load_buffer is
\* passed over
siridb_series_load_then_open ==
    LoadStage("siridb_series_load", "siridb_buffer_open")
siridb_series_load  == LoadStage("siridb_series_load", "siridb_load_buffer")
siridb_load_buffer  == LoadStage("siridb_load_buffer", "siridb_buffer_open")
siridb_buffer_open  == LoadStage("siridb_buffer_open", "siridb_shards_load")
siridb_shards_load  == LoadStage("siridb_shards_load", "siridb_pools_gen")

\* a step of the pipeline that cannot fail
PlainStage(stage, next) ==
    /\ pc = stage
    /\ log' = Logged(stage)
    /\ pc' = next
    /\ UNCHANGED << start_rc, rc, entries, failed, dir, dirCloses, cfgparser,
                    cfgFrees, unpacker, qpFrees, siridb_list,
                    loopVars, freeVars, grammar, fh, steps >>

siridb_pools_gen ==
    PlainStage("siridb_pools_gen", "update_props") /\ UNCHANGED inst

\* imap32_walk(siridb->series_map, siridb_series_update_props, NULL)
update_props ==
    PlainStage("update_props", "start_ts") /\ UNCHANGED inst

\* siridb->start_ts = time(NULL); the loop goes on to the next entry
start_ts ==
    /\ PlainStage("start_ts", "readdir")
    /\ inst' = [inst EXCEPT ![cur].start_ts = TRUE]

\* ------------------------------------------------------------ the reactor

\* a handle as uv_*_init leaves it in the loop's handle queue
Handle(name, type, data, active) ==
    [name |-> name, type |-> type, data |-> data, st |-> "open",
     active |-> active, cb |-> "none", closes |-> 0, cbRuns |-> 0,
     activeAtClose |-> FALSE]

\* uv_close(handle, cb): the handle stops and waits for the loop to finish it
uv_close(h, cb) ==
    [h EXCEPT !.st = "closing", !.cb = cb, !.active = FALSE,
              !.closes = @ + 1, !.activeAtClose = h.active]

\* uv_timer_stop(handle)
uv_timer_stop(h) == [h EXCEPT !.active = FALSE]

\* the loop has something to wait for: an active handle or a closing one
uv_loop_alive(hs) ==
    \E i \in DOMAIN hs :
        \/ (hs[i].st = "open" /\ hs[i].active)
        \/ hs[i].st = "closing"

\* the end of a loop iteration: every closing handle is finished and its
\* close callback, when it has one, is called
uv_run_closing_handles(hs) ==
    [i \in DOMAIN hs |->
        IF hs[i].st = "closing"
        THEN [hs[i] EXCEPT !.st = "closed",
                           !.cbRuns = IF hs[i].cb = "none" THEN @ ELSE @ + 1]
        ELSE hs[i]]

\* uv_run(loop, UV_RUN_DEFAULT) entered with nothing to dispatch but closing
\* handles: it iterates only while the loop is alive and stop_flag is clear
uv_run_iterates(hs, stop) == uv_loop_alive(hs) /\ ~stop
uv_run_handles(hs, stop) ==
    IF uv_run_iterates(hs, stop) THEN uv_run_closing_handles(hs) ELSE hs
\* it cannot return while a handle stays active
uv_run_blocks(hs, stop) ==
    uv_run_iterates(hs, stop) /\ uv_loop_alive(uv_run_closing_handles(hs))

Open(type) == { i \in DOMAIN handles :
                  handles[i].type = type /\ handles[i].st = "open" }
Named(name) == { i \in DOMAIN handles : handles[i].name = name }

\* ------------------------------------------------------------- siri_start

\* siri_start_loaded with the status of siridb_load_databases ignored
siri_start_loaded_rc_ignored ==
    /\ pc = "load_return"
    /\ pc' = "uv_loop_init"
    /\ UNCHANGED << start_rc, loadVars, loopVars, freeVars, grammar, fh,
                    steps >>

\* if ((rc = siridb_load_databases())) return rc;
\* The locals of siridb_load_databases (the directory stream, the entry, the
\* parser and the unpacker) and the record of its stages end with the call.
siri_start_loaded ==
    /\ pc = "load_return"
    /\ IF rc # 0
       THEN /\ pc' = "returned"
            /\ start_rc' = <<rc>>
            /\ steps' = Append(steps, "siri_start_return")
       ELSE /\ pc' = "uv_loop_init"
            /\ UNCHANGED << start_rc, steps >>
    /\ entries' = << >>
    /\ log' = << >>
    /\ failed' = << >>
    /\ dir' = "unopened"
    /\ dirCloses' = 0
    /\ cfgparser' = [i \in Cand |-> "none"]
    /\ cfgFrees' = [i \in Cand |-> 0]
    /\ unpacker' = [i \in Cand |-> "none"]
    /\ qpFrees' = [i \in Cand |-> 0]
    /\ UNCHANGED << rc, inst, siridb_list, loopVars, freeVars, grammar, fh >>

\* siri.loop = malloc(..); uv_loop_init(siri.loop)
uv_loop_init ==
    /\ pc = "uv_loop_init"
    /\ loop' = "open"
    /\ pc' = "uv_signal_start"
    /\ UNCHANGED << start_rc, loadVars, handles, stop_flag, depth, walkIdx,
                    task, cancels, trigger, mainRun, freeVars, grammar, fh,
                    steps >>

\* for (i = 0; i < N_SIGNALS; i++) uv_signal_init, uv_signal_start
uv_signal_start ==
    /\ pc = "uv_signal_start"
    /\ handles' = handles \o
                  [i \in 1 .. N_SIGNALS |->
                      Handle(signals[i], "UV_SIGNAL", FALSE, TRUE)]
    /\ pc' = "sirinet_bserver_init"
    /\ UNCHANGED << start_rc, loadVars, loop, stop_flag, depth, walkIdx,
                    task, cancels, trigger, mainRun, freeVars, grammar, fh,
                    steps >>

\* a listener: a TCP server handle whose data is NULL.  When the
\* initialisation fails the handle may or may not have been put in the loop.
ListenerInit(name, ok, bound) ==
    IF ok \/ bound
    THEN Append(handles, Handle(name, "UV_TCP", FALSE, ok))
    ELSE handles

\* if ((rc = <listener>_init(&siri))) { close_handlers(); return rc; }
StartListener(name, next) ==
    /\ pc = name
    /\ \E ok \in BOOLEAN, bound \in BOOLEAN :
          /\ handles' = ListenerInit(name, ok, bound)
          /\ IF ok
             THEN pc' = next /\ UNCHANGED << rc, trigger >>
             ELSE pc' = "close_handlers" /\ rc' = 1 /\ trigger' = "listener"
    /\ UNCHANGED << start_rc, entries, log, failed, dir, dirCloses, cfgparser,
                    cfgFrees, unpacker, qpFrees, inst, siridb_list, loop,
                    stop_flag, depth, walkIdx, task, cancels, mainRun,
                    freeVars, grammar, fh, steps >>

sirinet_bserver_init ==
    StartListener("sirinet_bserver_init", "sirinet_clserver_init")

sirinet_clserver_init ==
    StartListener("sirinet_clserver_init", "siri_optimize_init")

\* a periodic task starts: its timer is put in the loop
TaskInit(t) ==
    /\ task' = [task EXCEPT ![t] = "started"]
    /\ handles' = Append(handles, Handle(t, "UV_TIMER", FALSE, TRUE))

siri_optimize_init ==
    /\ pc = "siri_optimize_init"
    /\ TaskInit("optimize")
    /\ pc' = "siri_heartbeat_init"
    /\ UNCHANGED << start_rc, loadVars, loop, stop_flag, depth, walkIdx,
                    cancels, trigger, mainRun, freeVars, grammar, fh, steps >>

siri_heartbeat_init ==
    /\ pc = "siri_heartbeat_init"
    /\ TaskInit("heartbeat")
    /\ pc' = "uv_run"
    /\ UNCHANGED << start_rc, loadVars, loop, stop_flag, depth, walkIdx,
                    cancels, trigger, mainRun, freeVars, grammar, fh, steps >>

\* uv_run(siri.loop, UV_RUN_DEFAULT) of siri_start is entered
uv_run_main ==
    /\ pc = "uv_run"
    /\ depth' = depth + 1
    /\ mainRun' = TRUE
    /\ pc' = "uv_run_loop"
    /\ UNCHANGED << start_rc, loadVars, loop, handles, stop_flag, walkIdx,
                    task, cancels, trigger, freeVars, grammar, fh, steps >>

\* while (r != 0 && loop->stop_flag == 0) of the uv_run of siri_start; when
\* the loop ends stop_flag is cleared and siri_start returns 0
uv_run_loop ==
    /\ pc = "uv_run_loop"
    /\ IF uv_loop_alive(handles) /\ ~stop_flag
       THEN /\ pc' = "uv__io_poll"
            /\ UNCHANGED << stop_flag, depth, start_rc, steps >>
       ELSE /\ stop_flag' = FALSE
            /\ depth' = depth - 1
            /\ start_rc' = <<0>>
            /\ steps' = Append(steps, "siri_start_return")
            /\ pc' = "returned"
    /\ UNCHANGED << loadVars, loop, handles, walkIdx, task, cancels, trigger,
                    mainRun, freeVars, grammar, fh >>

\* the client listener accepts a connection: a TCP handle with a payload
accept_client ==
    /\ pc = "uv__io_poll"
    /\ Named("sirinet_clserver_init") \cap Open("UV_TCP") # {}
    /\ Cardinality(Named("client")) < MaxClients
    /\ handles' = Append(handles, Handle("client", "UV_TCP", TRUE, TRUE))
    /\ UNCHANGED << pc, start_rc, loadVars, loop, stop_flag, depth, walkIdx,
                    task, cancels, trigger, mainRun, freeVars, grammar, fh,
                    steps >>

\* a callback of a live connection, listener or timer puts one more handle
\* in the loop: an async handle, or a handle of a type the walk does not know
new_handle ==
    /\ pc = "uv__io_poll"
    /\ Open("UV_TCP") \cup Open("UV_TIMER") # {}
    /\ Cardinality(Named("extra")) < MaxExtra
    /\ \E type \in {"UV_ASYNC", "UV_UDP"}, active \in BOOLEAN :
          handles' = Append(handles, Handle("extra", type, FALSE, active))
    /\ UNCHANGED << pc, start_rc, loadVars, loop, stop_flag, depth, walkIdx,
                    task, cancels, trigger, mainRun, freeVars, grammar, fh,
                    steps >>

\* signal_delivered with a handler that calls close_handlers first
signal_delivered_closes_first ==
    /\ pc = "uv__io_poll"
    /\ \E i \in Open("UV_SIGNAL") :
          /\ handles[i].active
          /\ trigger' = handles[i].name
    /\ steps' = Append(steps, "signal_handler")
    /\ pc' = "close_handlers"
    /\ UNCHANGED << start_rc, loadVars, loop, handles, stop_flag, depth,
                    walkIdx, task, cancels, mainRun, freeVars, grammar, fh >>

\* one of the signals with a started watcher arrives: uv__io_poll calls
\* signal_handler
signal_delivered ==
    /\ pc = "uv__io_poll"
    /\ \E i \in Open("UV_SIGNAL") :
          /\ handles[i].active
          /\ trigger' = handles[i].name
    /\ steps' = Append(steps, "signal_handler")
    /\ pc' = "siri_optimize_cancel"
    /\ UNCHANGED << start_rc, loadVars, loop, handles, stop_flag, depth,
                    walkIdx, task, cancels, mainRun, freeVars, grammar, fh >>

\* the rest of the loop iteration after uv__io_poll
uv_run_iteration_end ==
    /\ pc = "uv__run_closing_handles"
    /\ handles' = uv_run_closing_handles(handles)
    /\ pc' = "uv_run_loop"
    /\ UNCHANGED << start_rc, loadVars, loop, stop_flag, depth, walkIdx, task,
                    cancels, trigger, mainRun, freeVars, grammar, fh, steps >>

\* --------------------------------------------------------- signal_handler

\* cancelling a periodic task: cancelling twice, or before the task started,
\* changes nothing; the cancel may stop the timer or leave that to the walk
TaskCancel(t) ==
    /\ cancels' = [cancels EXCEPT ![t] = @ + 1]
    /\ task' = [task EXCEPT ![t] = IF @ = "started" THEN "cancelled" ELSE @]
    /\ \E stops \in BOOLEAN :
          handles' = [i \in DOMAIN handles |->
                         IF handles[i].name = t /\ stops
                         THEN uv_timer_stop(handles[i]) ELSE handles[i]]

\* siri_optimize_cancel left out of signal_handler
siri_optimize_cancel_left_out ==
    /\ pc = "siri_optimize_cancel"
    /\ pc' = "siri_heartbeat_cancel"
    /\ UNCHANGED << start_rc, loadVars, loopVars, freeVars, grammar, fh,
                    steps >>

siri_optimize_cancel ==
    /\ pc = "siri_optimize_cancel"
    /\ TaskCancel("optimize")
    /\ steps' = Append(steps, "siri_optimize_cancel")
    /\ pc' = "siri_heartbeat_cancel"
    /\ UNCHANGED << start_rc, loadVars, loop, stop_flag, depth, walkIdx,
                    trigger, mainRun, freeVars, grammar, fh >>

siri_heartbeat_cancel ==
    /\ pc = "siri_heartbeat_cancel"
    /\ TaskCancel("heartbeat")
    /\ steps' = Append(steps, "siri_heartbeat_cancel")
    /\ pc' = "uv_stop"
    /\ UNCHANGED << start_rc, loadVars, loop, stop_flag, depth, walkIdx,
                    trigger, mainRun, freeVars, grammar, fh >>

\* uv_stop left out of signal_handler
uv_stop_left_out ==
    /\ pc = "uv_stop"
    /\ pc' = "close_handlers"
    /\ UNCHANGED << start_rc, loadVars, loopVars, freeVars, grammar, fh,
                    steps >>

\* uv_stop(siri.loop)
uv_stop ==
    /\ pc = "uv_stop"
    /\ stop_flag' = TRUE
    /\ steps' = Append(steps, "uv_stop")
    /\ pc' = "close_handlers"
    /\ UNCHANGED << start_rc, loadVars, loop, handles, depth, walkIdx, task,
                    cancels, trigger, mainRun, freeVars, grammar, fh >>

\* --------------------------------------------------------- close_handlers

\* close_handlers() starts with uv_walk(siri.loop, walk_close_handlers, NULL)
close_handlers ==
    /\ pc = "close_handlers"
    /\ walkIdx' = 1
    /\ steps' = Append(steps, "uv_walk")
    /\ pc' = "walk_close_handlers"
    /\ UNCHANGED << start_rc, loadVars, loop, handles, stop_flag, depth, task,
                    cancels, trigger, mainRun, freeVars, grammar, fh >>

\* the types with a case in the switch of walk_close_handlers
KnownTypes == {"UV_SIGNAL", "UV_TCP", "UV_TIMER", "UV_ASYNC"}

\* CloseByType with the UV_TCP case doing nothing
CloseByType_tcp_left_open(h) ==
    CASE h.type = "UV_SIGNAL" -> uv_close(h, "none")
      [] h.type = "UV_TCP"    -> h
      [] h.type = "UV_TIMER"  -> uv_close(uv_timer_stop(h), "none")
      [] h.type = "UV_ASYNC"  -> uv_close(h, "free")

\* CloseByType with the UV_TIMER case closing the timer as it is
CloseByType_timer_not_stopped(h) ==
    CASE h.type = "UV_SIGNAL" -> uv_close(h, "none")
      [] h.type = "UV_TCP"    ->
            uv_close(h, IF h.data THEN "sirinet_socket_free" ELSE "none")
      [] h.type = "UV_TIMER"  -> uv_close(h, "none")
      [] h.type = "UV_ASYNC"  -> uv_close(h, "free")

\* the switch of walk_close_handlers on a handle of a type it knows
CloseByType(h) ==
    CASE h.type = "UV_SIGNAL" -> uv_close(h, "none")
      [] h.type = "UV_TCP"    ->
            uv_close(h, IF h.data THEN "sirinet_socket_free" ELSE "none")
      [] h.type = "UV_TIMER"  -> uv_close(uv_timer_stop(h), "none")
      [] h.type = "UV_ASYNC"  -> uv_close(h, "free")

\* uv_walk calls walk_close_handlers on the next handle of the queue.  In
\* the default case assert(0) ends the process, unless the build defines
\* NDEBUG: then the handle is left as it is.
walk_close_handlers ==
    /\ pc = "walk_close_handlers"
    /\ LET h == handles[walkIdx]
           next == IF walkIdx = Len(handles)
                   THEN "close_handlers_uv_run" ELSE "walk_close_handlers"
       IN  IF h.st = "closed"
           THEN pc' = next /\ UNCHANGED handles
           ELSE IF h.type \in KnownTypes
           THEN /\ handles' = [handles EXCEPT ![walkIdx] = CloseByType(h)]
                /\ pc' = next
           ELSE /\ UNCHANGED handles
                /\ \/ pc' = "aborted"
                   \/ pc' = next
    /\ walkIdx' = walkIdx + 1
    /\ UNCHANGED << start_rc, loadVars, loop, stop_flag, depth, task, cancels,
                    trigger, mainRun, freeVars, grammar, fh, steps >>

\* uv_run(siri.loop, UV_RUN_DEFAULT) of close_handlers is entered
close_handlers_uv_run ==
    /\ pc = "close_handlers_uv_run"
    /\ depth' = depth + 1
    /\ steps' = Append(steps, "uv_run")
    /\ pc' = "drain"
    /\ UNCHANGED << start_rc, loadVars, loop, handles, stop_flag, walkIdx,
                    task, cancels, trigger, mainRun, freeVars, grammar, fh >>

\* that uv_run runs and returns, and close_handlers returns: to siri_start,
\* which returns rc, or to signal_handler, which returns into uv__io_poll
drain ==
    /\ pc = "drain"
    /\ handles' = uv_run_handles(handles, stop_flag)
    /\ IF uv_run_blocks(handles, stop_flag)
       THEN /\ pc' = "blocked"
            /\ UNCHANGED << stop_flag, depth, start_rc, steps >>
       ELSE /\ stop_flag' = FALSE
            /\ depth' = depth - 1
            /\ IF trigger = "listener"
               THEN /\ start_rc' = <<rc>>
                    /\ steps' = Append(steps, "siri_start_return")
                    /\ pc' = "returned"
               ELSE /\ steps' = Append(steps, "signal_handler_return")
                    /\ pc' = "uv__run_closing_handles"
                    /\ UNCHANGED start_rc
    /\ UNCHANGED << loadVars, loop, walkIdx, task, cancels, trigger, mainRun,
                    freeVars, grammar, fh >>

\* -------------------------------------------------------------- siri_free

Range(q) == { q[i] : i \in DOMAIN q }

\* uv_loop_close(): UV_EBUSY while a handle of the loop is not closed
uv_loop_close(hs) ==
    IF \A i \in DOMAIN hs : hs[i].st = "closed" THEN "closed" ELSE "busy"

\* free() of a pointer that was freed before is undefined: the allocator
\* ends the process, or the call returns
FreeAgain(r, next) ==
    IF frees[r] > 0 THEN pc' \in {"aborted", next} ELSE pc' = next

\* siri_free_uv_loop_close without the test of siri.loop
siri_free_uv_loop_close_unguarded ==
    /\ pc \in {"returned", "terminated"}
    /\ freeCalls < MaxFreeCalls
    /\ freeCalls' = freeCalls + 1
    /\ loop' = IF loop = "NULL" THEN loop ELSE uv_loop_close(handles)
    /\ steps' = Append(steps, "uv_loop_close")
    /\ FreeAgain("loop", "free_loop")
    /\ UNCHANGED << start_rc, loadVars, handles, stop_flag, depth, walkIdx,
                    task, cancels, trigger, mainRun, frees, grammar, fh >>

\* siri_free() is called once siri_start has returned;
\* if (siri.loop != NULL) uv_loop_close(siri.loop)
siri_free_uv_loop_close ==
    /\ pc \in {"returned", "terminated"}
    /\ freeCalls < MaxFreeCalls
    /\ freeCalls' = freeCalls + 1
    /\ IF loop # "NULL"
       THEN /\ loop' = uv_loop_close(handles)
            /\ steps' = Append(steps, "uv_loop_close")
            /\ FreeAgain("loop", "free_loop")
       ELSE /\ pc' = "free_loop"
            /\ UNCHANGED << loop, steps >>
    /\ UNCHANGED << start_rc, loadVars, handles, stop_flag, depth, walkIdx,
                    task, cancels, trigger, mainRun, frees, grammar, fh >>

\* free(siri.loop): nothing happens when siri.loop is NULL
siri_free_loop ==
    /\ pc = "free_loop"
    /\ IF loop # "NULL"
       THEN /\ frees' = [frees EXCEPT !["loop"] = @ + 1]
            /\ steps' = Append(steps, "free_loop")
            /\ FreeAgain("loop", "free_grammar")
       ELSE /\ pc' = "free_grammar"
            /\ UNCHANGED << frees, steps >>
    /\ UNCHANGED << start_rc, loadVars, loopVars, freeCalls, grammar, fh >>

\* free(siri.grammar)
siri_free_grammar ==
    /\ pc = "free_grammar"
    /\ frees' = [frees EXCEPT !["grammar"] = @ + 1]
    /\ steps' = Append(steps, "free_grammar")
    /\ FreeAgain("grammar", "siri_fh_free")
    /\ UNCHANGED << start_rc, loadVars, loopVars, freeCalls, grammar, fh >>

\* siri_fh_free(siri.fh)
siri_fh_free ==
    /\ pc = "siri_fh_free"
    /\ frees' = [frees EXCEPT !["fh"] = @ + 1]
    /\ steps' = Append(steps, "siri_fh_free")
    /\ FreeAgain("fh", "llist_free_cb")
    /\ UNCHANGED << start_rc, loadVars, loopVars, freeCalls, grammar, fh >>

\* the list calls the destructor on every member, whatever its reference
\* count, and is freed
llist_free_cb_members(list) ==
    [i \in Cand |->
        IF i \in Range(list)
        THEN [inst[i] EXCEPT !.destroyed = @ + 1] ELSE inst[i]]

\* llist_free_cb(siri.siridb_list, siridb_free_cb, NULL); siri_free returns
llist_free_cb ==
    /\ pc = "llist_free_cb"
    /\ inst' = llist_free_cb_members(siridb_list)
    /\ frees' = [frees EXCEPT !["list"] = @ + 1]
    /\ steps' = Append(steps, "llist_free_cb")
    /\ FreeAgain("list", "terminated")
    /\ UNCHANGED << start_rc, rc, entries, log, failed, dir, dirCloses,
                    cfgparser, cfgFrees, unpacker, qpFrees, siridb_list,
                    loopVars, freeCalls, grammar, fh >>

\* ------------------------------------------------------------ the program

Next ==
    \/ siri_start_setup
    \/ stat_mkdir
    \/ opendir
    \/ readdir
    \/ check_name
    \/ fstatat
    \/ access
    \/ cfgparser_read
    \/ qp_from_file_unpacker
    \/ siridb_from_unpacker
    \/ llist_append
    \/ siridb_incref
    \/ qp_free_unpacker
    \/ set_dbpath
    \/ set_buffer_path
    \/ cfgparser_free
    \/ siridb_users_load
    \/ siridb_servers_load
    \/ siridb_series_load
    \/ siridb_load_buffer
    \/ siridb_buffer_open
    \/ siridb_shards_load
    \/ siridb_pools_gen
    \/ update_props
    \/ start_ts
    \/ siri_start_loaded
    \/ uv_loop_init
    \/ uv_signal_start
    \/ sirinet_bserver_init
    \/ sirinet_clserver_init
    \/ siri_optimize_init
    \/ siri_heartbeat_init
    \/ uv_run_main
    \/ uv_run_loop
    \/ accept_client
    \/ new_handle
    \/ signal_delivered
    \/ uv_run_iteration_end
    \/ siri_optimize_cancel
    \/ siri_heartbeat_cancel
    \/ uv_stop
    \/ close_handlers
    \/ walk_close_handlers
    \/ close_handlers_uv_run
    \/ drain
    \/ siri_free_uv_loop_close
    \/ siri_free_loop
    \/ siri_free_grammar
    \/ siri_fh_free
    \/ llist_free_cb

Spec == Init /\ [][Next]_vars

\* ------------------------------------------------------------- properties

Pos(q, x) == IF \E i \in DOMAIN q : q[i] = x
             THEN CHOOSE i \in DOMAIN q : q[i] = x /\ \A j \in 1 .. (i - 1) : q[j] # x
             ELSE 0
Done(x) == Pos(steps, x) > 0
Min(a, b) == IF a < b THEN a ELSE b
StartsAs(q, order) ==
    \A i \in 1 .. Min(Len(q), Len(order)) : q[i] = order[i]

BySignal == trigger \in Range(signals)
ByListener == trigger = "listener"
BootstrapFailed == rc # 0 /\ trigger = "none"
Registered == IF siridb_list = "NULL" THEN {} ELSE Range(siridb_list)

\* C1: when siridb_load_databases returns because a stage of a candidate
\* failed, the instance of that candidate is not in siri.siridb_list.
C1_FailedCandidateNotRegistered ==
    (pc = "load_return" /\ failed # << >>) => failed[1] \notin Registered

\* C2: after a signal the steps run in the order cancel optimize, cancel
\* heartbeat, stop the reactor, walk, drain, return of siri_start, and then
\* in siri_free close the loop, free it, free the grammar, the handle cache
\* and the registry; the drain starts when the walk has visited every handle.
SignalOrder ==
    << "signal_handler", "siri_optimize_cancel", "siri_heartbeat_cancel",
       "uv_stop", "uv_walk", "uv_run", "signal_handler_return",
       "siri_start_return", "uv_loop_close", "free_loop", "free_grammar",
       "siri_fh_free", "llist_free_cb" >>
C2_SignalShutdownOrder ==
    BySignal =>
        /\ StartsAs(steps, SignalOrder)
        /\ Done("siri_optimize_cancel") => task["optimize"] = "cancelled"
        /\ Done("siri_heartbeat_cancel") => task["heartbeat"] = "cancelled"
        /\ (Done("uv_stop") /\ ~Done("uv_run")) => stop_flag
        /\ pc = "drain" =>
              \A i \in DOMAIN handles :
                  handles[i].type \in KnownTypes => handles[i].st = "closing"
        /\ Done("uv_loop_close") => start_rc = <<0>>
C2_Witness ==
    /\ BySignal
    /\ pc = "terminated"
    /\ freeCalls = 1
    /\ SubSeq(steps, 1, Len(SignalOrder)) = SignalOrder

\* C3 as stated: whenever the resource walk begins, both periodic tasks
\* were cancelled and the reactor was stopped before it.
C3_WalkAfterCancelAndStop ==
    Done("uv_walk") =>
        /\ Done("siri_optimize_cancel")
        /\ Done("siri_heartbeat_cancel")
        /\ Done("uv_stop")
        /\ Pos(steps, "uv_stop") < Pos(steps, "uv_walk")

\* C3 amended: a walk started by a signal comes after both cancels and the
\* stop; a walk started by a listener failure comes with no cancel and no
\* stop, the tasks never started and the reactor never run.
C3_WalkBySignalAfterCancelAndStop ==
    Done("uv_walk") =>
        IF ByListener
        THEN /\ ~Done("siri_optimize_cancel")
             /\ ~Done("siri_heartbeat_cancel")
             /\ ~Done("uv_stop")
             /\ \A t \in DOMAIN task : task[t] = "none" /\ cancels[t] = 0
             /\ ~mainRun /\ ~stop_flag
        ELSE /\ BySignal
             /\ Pos(steps, "siri_optimize_cancel") \in 1 .. Pos(steps, "uv_walk")
             /\ Pos(steps, "siri_heartbeat_cancel") \in 1 .. Pos(steps, "uv_walk")
             /\ Pos(steps, "uv_stop") \in 1 .. Pos(steps, "uv_walk")
             /\ \A t \in DOMAIN task : cancels[t] = 1
C3_Witness ==
    ByListener /\ Done("uv_walk") /\ pc = "returned" /\ Len(handles) > N_SIGNALS

\* C4: once close_handlers has returned, every handle that was in the loop
\* is closed and every close callback has run (handles of known types only).
CloseHandlersReturned ==
    \/ Done("signal_handler_return")
    \/ (ByListener /\ Done("siri_start_return"))
AllKnown == \A i \in DOMAIN handles : handles[i].type \in KnownTypes
C4_DrainLeavesNothingOpen ==
    (CloseHandlersReturned /\ AllKnown) =>
        \A i \in DOMAIN handles :
            /\ handles[i].st = "closed"
            /\ handles[i].cb # "none" => handles[i].cbRuns = 1

\* C5: nothing is closed or freed twice, however often a signal arrives and
\* siri_free is called.
C5_NothingReleasedTwice ==
    /\ \A r \in DOMAIN frees : frees[r] <= 1
    /\ \A i \in Cand : inst[i].destroyed <= 1
    /\ \A i \in DOMAIN handles : handles[i].closes <= 1

\* C6: every instance in the registry has had the registry's reference
\* acquired: its reference count is at least 1 until its destructor runs.
C6_RegisteredHasReference ==
    \A i \in Registered : inst[i].destroyed = 0 => inst[i].ref >= 1

\* C7: a failing stage makes siridb_load_databases return non-zero at once:
\* the failing stage is the last stage run and its entry the last entry read.
C7_FailFast ==
    failed # << >> =>
        /\ pc = "load_return"
        /\ rc # 0
        /\ failed[1] = cur
        /\ log[Len(log)] = failed
        /\ dir = "closed"
C7_Witness ==
    /\ failed # << >>
    /\ failed[2] = "siridb_series_load"
    /\ cur < MaxEntries

\* C8: when siridb_load_databases fails, siri_start returns its status; no
\* reactor, no signal watcher, no listener, no task and no run of the loop.
C8_BootstrapFailureStartsNothing ==
    BootstrapFailed =>
        /\ loop = "NULL"
        /\ handles = << >>
        /\ \A t \in DOMAIN task : task[t] = "none"
        /\ ~mainRun
        /\ depth = 0
        /\ pc # "load_return" => start_rc = <<rc>>
        /\ pc \in {"load_return", "returned", "free_loop", "free_grammar",
                   "siri_fh_free", "llist_free_cb", "terminated", "aborted"}
C8_Witness ==
    BootstrapFailed /\ pc = "returned" /\ start_rc = <<1>>

\* C9: when a listener fails to initialise, siri_start walks and drains and
\* returns the non-zero code; no task started, the loop of siri_start never
\* ran, and at the return every handle made so far is closed.
C9_ListenerFailureClosesAll ==
    ByListener =>
        /\ rc # 0
        /\ \A t \in DOMAIN task : task[t] = "none"
        /\ ~mainRun
        /\ pc \notin {"blocked", "aborted"} \/ freeCalls > 0
        /\ start_rc # << >> =>
              /\ start_rc = <<rc>>
              /\ Done("uv_walk") /\ Done("uv_run")
              /\ Len(handles) >= N_SIGNALS
              /\ \A i \in DOMAIN handles : handles[i].st = "closed"
C9_Witness ==
    /\ ByListener
    /\ pc = "returned"
    /\ Named("sirinet_bserver_init") # {}
    /\ Named("sirinet_clserver_init") # {}

\* C10: the first siri_free after siri_start, whatever its outcome, closes
\* the loop only when there is one, releases loop, grammar, handle cache and
\* registry once each in that order, and destroys each registered instance
\* once, whatever its reference count.
FreeOrder(withLoop) ==
    (IF withLoop THEN << "uv_loop_close", "free_loop" >> ELSE << >>)
        \o << "free_grammar", "siri_fh_free", "llist_free_cb" >>
AfterReturn ==
    SubSeq(steps, Pos(steps, "siri_start_return") + 1, Len(steps))
C10_FirstFreeReleasesOnce ==
    freeCalls = 1 =>
        /\ pc # "aborted"
        /\ StartsAs(AfterReturn, FreeOrder(loop # "NULL"))
        /\ pc = "terminated" =>
              /\ AfterReturn = FreeOrder(loop # "NULL")
              /\ frees["loop"] = IF loop = "NULL" THEN 0 ELSE 1
              /\ frees["grammar"] = 1 /\ frees["fh"] = 1 /\ frees["list"] = 1
              /\ \A i \in Cand :
                    inst[i].destroyed = IF i \in Registered THEN 1 ELSE 0
C10_Witness ==
    /\ freeCalls = 1
    /\ pc = "terminated"
    /\ loop = "NULL"
    /\ Registered # {}

\* C11: whichever of the three signals arrives, each periodic task is
\* cancelled exactly once, siri_start returns 0 and the loop has nothing
\* alive then; with handles of the known types only, the shutdown neither
\* aborts nor hangs and every handle is closed at the return.
C11_SignalShutdownReturnsZero ==
    BySignal =>
        /\ \A t \in DOMAIN task :
              cancels[t] = IF Done("siri_" \o t \o "_cancel") THEN 1 ELSE 0
        /\ (AllKnown /\ freeCalls = 0) => pc \notin {"aborted", "blocked"}
        /\ (AllKnown /\ Done("signal_handler_return")) => pc # "uv__io_poll"
        /\ start_rc # << >> =>
              /\ start_rc = <<0>>
              /\ \A t \in DOMAIN task :
                    cancels[t] = 1 /\ task[t] = "cancelled"
              /\ ~uv_loop_alive(handles)
              /\ \A i \in DOMAIN handles :
                    handles[i].type \in KnownTypes => handles[i].st = "closed"
C11_Witness ==
    /\ trigger = "SIGSEGV"
    /\ pc = "returned"
    /\ start_rc = <<0>>
    /\ AllKnown
    /\ Len(handles) > N_SIGNALS + 4

\* the entries as the claims name them
IsDot(n) == n = <<".">>
IsDotDot(n) == n = <<".", ".">>
HasPrefix(n, p) == Len(n) >= Len(p) /\ SubSeq(n, 1, Len(p)) = p
Reserved(n) == IsDot(n) \/ IsDotDot(n) \/ HasPrefix(n, <<"_", "_">>)
StagesOf(i) == { k \in DOMAIN log : log[k][1] = i }
\* the loop body is over for entry i
Handled(i) == i < cur \/ (i = cur /\ pc \in {"readdir", "load_return"})

\* C12: no stage is run for an entry named ".", "..", or starting with a
\* double underscore, or that is not a directory, and it is not registered.
C12_ReservedAndNonDirectoriesNotLoaded ==
    \A i \in DOMAIN entries :
        (Reserved(entries[i].name) \/ entries[i].ftype # "dir") =>
            StagesOf(i) = {} /\ i \notin Registered
C12_Witness ==
    /\ pc = "load_return"
    /\ Len(entries) = 2
    /\ HasPrefix(entries[1].name, <<"_", "_">>)
    /\ entries[2].ftype = "file"

\* C13: every directory with a readable database.conf whose name is not ".",
\* not ".." and does not start with a double underscore is passed to the
\* loader: its pipeline is started.
ValidCandidate(i) ==
    /\ entries[i].ftype = "dir"
    /\ entries[i].conf = "yes"
    /\ ~Reserved(entries[i].name)
C13_ValidCandidatesLoaded ==
    \A i \in DOMAIN entries :
        (ValidCandidate(i) /\ Handled(i)) => StagesOf(i) # {}

\* C14: when siridb_load_databases returns with no stage having failed, it
\* returns 0 and the registry holds exactly the candidate directories with a
\* readable database.conf, once each.
C14_RegistryIsTheDirectoriesWithConf ==
    (pc = "load_return" /\ dir = "closed" /\ failed = << >>) =>
        /\ rc = 0
        /\ Registered = { i \in DOMAIN entries : ValidCandidate(i) }
        /\ Len(siridb_list) = Cardinality(Registered)

\* the steps of the loop body for one candidate, in the order of the source
Pipeline ==
    << "cfgparser_read", "qp_from_file_unpacker", "siridb_from_unpacker",
       "llist_append", "siridb_incref", "qp_free_unpacker", "set_dbpath",
       "set_buffer_path", "cfgparser_free", "siridb_users_load",
       "siridb_servers_load", "siridb_series_load", "siridb_load_buffer",
       "siridb_buffer_open", "siridb_shards_load", "siridb_pools_gen",
       "update_props", "start_ts" >>

\* C15: the stages of one candidate run in the order of the pipeline, each
\* one right after the one before it; the first stage of the next candidate
\* follows the start_ts stamp of the current one; and once a stage has
\* failed no further stage is run.
C15_PipelineOrder ==
    /\ \A k \in DOMAIN log :
          IF k = 1 \/ log[k - 1][1] # log[k][1]
          THEN /\ log[k][2] = Pipeline[1]
               /\ k > 1 => /\ log[k - 1][2] = Pipeline[Len(Pipeline)]
                           /\ log[k - 1][1] < log[k][1]
          ELSE \E j \in 1 .. (Len(Pipeline) - 1) :
                  log[k - 1][2] = Pipeline[j] /\ log[k][2] = Pipeline[j + 1]
    /\ failed # << >> => failed = log[Len(log)] /\ pc = "load_return"
C15_Witness ==
    /\ pc = "load_return"
    /\ failed = << >>
    /\ Len(log) = 2 * Len(Pipeline)
    /\ log[Len(Pipeline)] = <<1, "start_ts">>
    /\ log[Len(log)] = <<2, "start_ts">>

\* C16: uv_run is never entered while another uv_run of the loop is still
\* executing.
C16_RunLoopNotReentered == depth <= 1

\* C17: on every return of siridb_load_databases after opendir succeeded the
\* directory stream is closed, once; every parser and every unpacker that
\* was created is freed, once; and the steps that read the parser or the
\* unpacker run while it is live.
C17_LoadReleasesItsResources ==
    /\ dirCloses <= 1
    /\ \A i \in Cand :
          /\ cfgFrees[i] = IF cfgparser[i] = "freed" THEN 1 ELSE 0
          /\ unpacker[i] = "freed" => qpFrees[i] = 1
          /\ unpacker[i] \in {"none", "live"} => qpFrees[i] = 0
          /\ qpFrees[i] <= 1
    /\ pc \in {"qp_from_file_unpacker", "siridb_from_unpacker", "set_dbpath",
               "set_buffer_path", "cfgparser_free"} => cfgparser[cur] = "live"
    /\ pc \in {"siridb_from_unpacker", "qp_free_unpacker"} =>
          unpacker[cur] = "live"
    /\ (pc = "load_return" /\ dir # "unopened") =>
          /\ dir = "closed"
          /\ dirCloses = 1
          /\ \A i \in Cand : cfgparser[i] # "live" /\ unpacker[i] # "live"
C17_Witness ==
    /\ pc = "load_return"
    /\ failed = <<2, "siridb_shards_load">>
    /\ cfgparser = [i \in Cand |-> "freed"]
    /\ unpacker = [i \in Cand |-> "freed"]

\* the walk is over
Walked == walkIdx > Len(handles)
\* the close callback the claim gives a handle
CloseCallback(h) ==
    CASE h.type = "UV_SIGNAL" -> "none"
      [] h.type = "UV_TCP"    -> IF h.data THEN "sirinet_socket_free"
                                           ELSE "none"
      [] h.type = "UV_TIMER"  -> "none"
      [] h.type = "UV_ASYNC"  -> "free"

\* C18: when the walk is over every handle of a known type has been closed
\* once, with the callback of its type; a timer was not active when it was
\* closed; and the callback of a closed handle has run once.
C18_WalkClosesEachByItsType ==
    \A i \in DOMAIN handles :
        LET h == handles[i]
        IN  /\ h.closes <= 1
            /\ h.cbRuns <= h.closes
            /\ h.closes = 0 => h.st = "open"
            /\ h.closes = 1 =>
                  /\ i < walkIdx
                  /\ h.st # "open"
                  /\ h.cb = CloseCallback(h)
                  /\ h.type = "UV_TIMER" => ~h.activeAtClose
                  /\ h.st = "closed" =>
                        h.cbRuns = IF h.cb = "none" THEN 0 ELSE 1
            /\ (Walked /\ h.type \in KnownTypes) => h.closes = 1
C18_Witness ==
    /\ Walked
    /\ \E i \in DOMAIN handles :
          /\ handles[i].type = "UV_TCP" /\ handles[i].data
          /\ handles[i].st = "closed" /\ handles[i].cbRuns = 1
    /\ \E i \in DOMAIN handles :
          /\ handles[i].type = "UV_ASYNC"
          /\ handles[i].st = "closed" /\ handles[i].cbRuns = 1
    /\ \E i \in DOMAIN handles :
          handles[i].type = "UV_TIMER" /\ handles[i].st = "closed"

\* C19: once the walk has visited a handle of a type without a case in the
\* switch, the process has aborted.
C19_UnknownTypeAborts ==
    (\E i \in DOMAIN handles :
        i < walkIdx /\ handles[i].type \notin KnownTypes) => pc = "aborted"

\* C20: when siridb_load_databases returns because a stage of a candidate
\* failed, every earlier candidate that was registered is still in the
\* registry with its one reference and is not destroyed; an instance is
\* destroyed by llist_free_cb in siri_free only, and a referenced instance
\* is never out of the registry.
C20_NoRollback ==
    /\ (pc = "load_return" /\ failed # << >>) =>
          \A i \in 1 .. (failed[1] - 1) :
              <<i, "llist_append">> \in Range(log) =>
                  /\ i \in Registered
                  /\ inst[i].ref = 1
                  /\ inst[i].destroyed = 0
    /\ \A i \in Cand :
          /\ inst[i].destroyed > 0 => Done("llist_free_cb")
          /\ inst[i].ref > 0 => i \in Registered
C20_Witness ==
    /\ pc = "load_return"
    /\ failed # << >>
    /\ failed[1] = 2
    /\ <<1, "start_ts">> \in Range(log)
    /\ 1 \in Registered

====
